---- MODULE Spec2Model ----
\* git-dirheat: the numstat parser, the path tree builder, the aggregator and
\* the /data export of main.go, as a state machine.
\*
\* Text is modelled as sequences of one-character strings, so that the string
\* functions the program calls (strings.Fields, Index, Split, Trim...) are
\* computed character by character as Go computes them.  Go indexes are kept
\* 0-based: Slice(s, i, j) is s[i:j].
EXTENDS Integers, Sequences, FiniteSets, TLC

VARIABLES
    goos,              \* the operating system the binary was built for
    history,           \* what `git log --numstat` prints for the repository, line by line
    pc,                \* position of main/analyzeRepo
    err,               \* analyzeRepo's local err after the last git log run
    output,            \* analyzeRepo's local output, as the lines the scanner yields
    pos,               \* number of lines the scanner has yielded so far
    processedLines,    \* analyzeRepo's counter of non-empty lines
    fileChangeCounts,  \* the WeightMap: normalized path -> count
    visited,           \* keys the builder's range loop has already visited
    rootDir,           \* the nodes of the tree, by their sequence of names from the root
    repoData,          \* global: Nil or a pointer to rootDir
    analyzeError,      \* global: Nil or the error analyzeRepo returned
    resp               \* last response each /data handler wrote

vars ==
    <<goos, history, pc, err, output, pos, processedLines, fileChangeCounts,
      visited, rootDir, repoData, analyzeError, resp>>

Nil == "nil"

----------------------------------------------------------------------------
\* Bounds of the model.

\* longest git log output (in lines) of SpecParse
MaxParseLines == 2
\* longest git log output (in lines) of Spec
MaxTreeLines == 3

----------------------------------------------------------------------------
\* Go's string functions.

EmptyStr == <<>>

Slice(s, i, j) == SubSeq(s, i + 1, j)

SliceFrom(s, i) == SubSeq(s, i + 1, Len(s))

\* unicode.IsSpace restricted to the characters a scanned line can hold
IsSpace(c) == c \in {" ", "\t"}

MinOf(S) == CHOOSE x \in S : \A y \in S : x <= y

\* strings.Index: 0-based index of the first occurrence, -1 when absent
Index(s, sub) ==
    LET hits == {i \in 0..(Len(s) - Len(sub)) : Slice(s, i, i + Len(sub)) = sub}
    IN  IF hits = {} THEN -1 ELSE MinOf(hits)

Contains(s, sub) == Index(s, sub) >= 0

RECURSIVE Split(_, _)
\* strings.Split with a non-empty separator
Split(s, sep) ==
    LET i == Index(s, sep)
    IN  IF i < 0 THEN <<s>>
        ELSE <<Slice(s, 0, i)>> \o Split(SliceFrom(s, i + Len(sep)), sep)

RECURSIVE TrimLeft(_, _)
\* strings.TrimLeft: drop leading characters that are in cutset
TrimLeft(s, cutset) ==
    IF s # <<>> /\ Head(s) \in cutset THEN TrimLeft(Tail(s), cutset) ELSE s

RECURSIVE TrimRight(_, _)
TrimRight(s, cutset) ==
    IF s # <<>> /\ s[Len(s)] \in cutset
    THEN TrimRight(SubSeq(s, 1, Len(s) - 1), cutset)
    ELSE s

\* strings.Trim
Trim(s, cutset) == TrimRight(TrimLeft(s, cutset), cutset)

\* strings.TrimSpace
TrimSpace(s) == Trim(s, {" ", "\t"})

\* strings.TrimPrefix: drops one occurrence only
TrimPrefix(s, prefix) ==
    IF Len(s) >= Len(prefix) /\ Slice(s, 0, Len(prefix)) = prefix
    THEN SliceFrom(s, Len(prefix))
    ELSE s

\* strings.TrimSuffix: drops one occurrence only
TrimSuffix(s, suffix) ==
    IF Len(s) >= Len(suffix) /\ SliceFrom(s, Len(s) - Len(suffix)) = suffix
    THEN Slice(s, 0, Len(s) - Len(suffix))
    ELSE s

RECURSIVE Fields(_)
\* strings.Fields: the maximal runs of non-space characters
Fields(s) ==
    LET t == TrimLeft(s, {" ", "\t"})
        stops == {i \in 1..Len(t) : IsSpace(t[i])}
        n == IF stops = {} THEN Len(t) ELSE MinOf(stops) - 1
    IN  IF t = <<>> THEN <<>>
        ELSE <<SubSeq(t, 1, n)>> \o Fields(SubSeq(t, n + 1, Len(t)))

\* os.PathSeparator of the build
Separator(os) == IF os = "windows" THEN "\\" ELSE "/"

\* filepath.ToSlash: replaces the build's separator by a slash
ToSlash(os, s) == [i \in 1..Len(s) |-> IF s[i] = Separator(os) THEN "/" ELSE s[i]]

Digits == <<"0", "1", "2", "3", "4", "5", "6", "7", "8", "9">>

RECURSIVE Atoi(_)
\* value of a string of decimal digits (0 for anything else)
Atoi(s) ==
    IF s = <<>> \/ \E i \in 1..Len(s) : \A d \in 1..10 : Digits[d] # s[i]
    THEN 0
    ELSE LET last == CHOOSE d \in 1..10 : Digits[d] = s[Len(s)]
         IN  10 * Atoi(SubSeq(s, 1, Len(s) - 1)) + (last - 1)

----------------------------------------------------------------------------
\* The lines git log output is made of in this model.

\* "3\t1\tsrc/app.go"  (a content change: <added> <deleted> <path>)
NormalLine ==
    <<"3", "\t", "1", "\t", "s", "r", "c", "/", "a", "p", "p", ".", "g", "o">>
\* "0\t0\tsrc/{old.go => new.go}"  (git's partial-path rename notation)
RenameLine ==
    <<"0", "\t", "0", "\t", "s", "r", "c", "/", "{", "o", "l", "d", ".", "g", "o", " ", "=", ">", " ", "n", "e", "w", ".", "g", "o", "}">>
\* "1\t0\t{old/path.go => new/path.go}"  (git's whole-path rename notation)
WholeRenameLine ==
    <<"1", "\t", "0", "\t", "{", "o", "l", "d", "/", "p", "a", "t", "h", ".", "g", "o", " ", "=", ">", " ", "n", "e", "w", "/", "p", "a", "t", "h", ".", "g", "o", "}">>
\* "garbage text no tabs"  (free text, four words)
GarbageLine ==
    <<"g", "a", "r", "b", "a", "g", "e", " ", "t", "e", "x", "t", " ", "n", "o", " ", "t", "a", "b", "s">>
\* ""  (separator between commits)
BlankLine ==
    <<>>
\* "1 0 a/b.go"
FirstTouchLine ==
    <<"1", " ", "0", " ", "a", "/", "b", ".", "g", "o">>
\* "2 0 a/b.go"
SecondTouchLine ==
    <<"2", " ", "0", " ", "a", "/", "b", ".", "g", "o">>
\* "-\t-\ta/b.go"  (binary file: - for both counts)
BinaryLine ==
    <<"-", "\t", "-", "\t", "a", "/", "b", ".", "g", "o">>
\* "x y"  (fewer than three fields, no arrow)
TwoFieldLine ==
    <<"x", " ", "y">>
\* "0 {a=>b}"  (two fields with a brace rename)
CompactRenameLine ==
    <<"0", " ", "{", "a", "=", ">", "b", "}">>
\* "{a=>b}"  (one field with a brace rename)
OneFieldRenameLine ==
    <<"{", "a", "=", ">", "b", "}">>
\* "{a=> b"  (two fields, brace never closed)
OpenRenameLine ==
    <<"{", "a", "=", ">", " ", "b">>
\* "0 {a=>b=>c}"  (two arrows inside the braces)
DoubleArrowLine ==
    <<"0", " ", "{", "a", "=", ">", "b", "=", ">", "c", "}">>
\* "1 0 a\b"  (a path written with a backslash)
BackslashLine ==
    <<"1", " ", "0", " ", "a", "\\", "b">>
\* "1\t1\tsrc/old.go"
OldLine ==
    <<"1", "\t", "1", "\t", "s", "r", "c", "/", "o", "l", "d", ".", "g", "o">>
\* "1 0 a"  (a path that is also a prefix of NestedLine's)
FileALine ==
    <<"1", " ", "0", " ", "a">>
\* "1 0 a/b"
NestedLine ==
    <<"1", " ", "0", " ", "a", "/", "b">>
\* "1 0 a/"  (a path whose last segment is empty)
TrailingSlashLine ==
    <<"1", " ", "0", " ", "a", "/">>
\* "1 0 a/b/c"  (three levels deep)
DeepLine ==
    <<"1", " ", "0", " ", "a", "/", "b", "/", "c">>
\* "1\t0\tother.go"
OtherLine ==
    <<"1", "\t", "0", "\t", "o", "t", "h", "e", "r", ".", "g", "o">>

\* "0\t0\tsrc/{ => sub}/a.go"  (git's notation for a move into a new directory)
MoveIntoDirLine ==
    <<"0", "\t", "0", "\t", "s", "r", "c", "/", "{", " ", "=", ">", " ", "s", "u", "b", "}", "/", "a", ".", "g", "o">>

\* lines of SpecParse
Lines ==
    {NormalLine, RenameLine, WholeRenameLine, GarbageLine, BlankLine,
     FirstTouchLine, SecondTouchLine, BinaryLine, TwoFieldLine,
     CompactRenameLine, OneFieldRenameLine, OpenRenameLine, DoubleArrowLine,
     BackslashLine, OldLine, FileALine, NestedLine, TrailingSlashLine,
     MoveIntoDirLine}

\* lines of Spec
TreeLines ==
    {RenameLine, OldLine, FileALine, NestedLine, TrailingSlashLine, DeepLine,
     OtherLine, BlankLine}

SeqsUpTo(S, n) == UNION {[1..k -> S] : k \in 0..n}

----------------------------------------------------------------------------
\* The line parser (the body of analyzeRepo's scanner loop).

Arrow == <<"=", ">">>

\* main.go 178-186: prefix{old => new}
BraceRenamePath(line) ==
    LET leftCurly == Index(line, <<"{">>)
        rightCurly == Index(line, <<"}">>)
        prefix == Slice(line, 0, leftCurly)
        inside == Slice(line, leftCurly + 1, rightCurly)
        insideParts == Split(inside, Arrow)
    IN  IF Len(insideParts) = 2
        THEN TrimSpace(prefix \o insideParts[2])
        ELSE EmptyStr

\* main.go 187-197: {old => new} starting the line
WholeRenamePath(line) ==
    LET inside == SliceFrom(line, 1)
        arrow == Index(inside, Arrow)
        right == SliceFrom(inside, arrow + 2)
    IN  IF arrow > 0
        THEN TrimSpace(TrimSuffix(TrimPrefix(right, <<" ">>), <<"}">>))
        ELSE EmptyStr

\* main.go 175-197: the destination path of a line with fewer than 3 fields
\* that contains "=>"
RenamePath(line) ==
    LET leftCurly == Index(line, <<"{">>)
        rightCurly == Index(line, <<"}">>)
        arrow == Index(line, Arrow)
    IN  IF leftCurly >= 0 /\ rightCurly > leftCurly /\ arrow > leftCurly
           /\ arrow < rightCurly
        THEN BraceRenamePath(line)
        ELSE IF leftCurly = 0 /\ arrow > 0
        THEN WholeRenamePath(line)
        ELSE EmptyStr

\* main.go 163-218: what the loop body decides for one line.  kind is
\* "record" when control reaches line 220, and the `continue` taken otherwise.
ParseLine(line) ==
    LET parts == Fields(line)
        skip(k) == [kind |-> k, addedStr |-> EmptyStr, deletedStr |-> EmptyStr,
                    filePath |-> EmptyStr]
    IN  IF line = EmptyStr THEN skip("blank")
        ELSE IF Len(parts) < 3
        THEN IF Contains(line, Arrow)
             THEN IF RenamePath(line) = EmptyStr THEN skip("badRename")
                  ELSE IF Len(parts) >= 2
                  THEN [kind |-> "record", addedStr |-> parts[1],
                        deletedStr |-> parts[2], filePath |-> RenamePath(line)]
                  ELSE skip("badNumbers")
             ELSE skip("malformed")
        ELSE [kind |-> "record", addedStr |-> parts[1], deletedStr |-> parts[2],
              filePath |-> parts[3]]

\* ChangeAmount as it would be if the weight were the number of changed lines
ChangeAmountByLines(addedStr, deletedStr) ==
    IF addedStr = <<"-">> \/ deletedStr = <<"-">> THEN 1
    ELSE Atoi(addedStr) + Atoi(deletedStr)

\* main.go 220-225
ChangeAmount(addedStr, deletedStr) ==
    IF addedStr = <<"-">> \/ deletedStr = <<"-">> THEN 1 ELSE 1

\* main.go 227-228
NormalizePath(os, filePath) ==
    TrimLeft(ToSlash(os, TrimSpace(filePath)), {"{", " "})

\* main.go 229-232: fileChangeCounts[normalizedPath] += changeAmount
AddCount(counts, key, amount) ==
    IF key \in DOMAIN counts
    THEN [counts EXCEPT ![key] = @ + amount]
    ELSE [k \in DOMAIN counts \cup {key} |->
            IF k = key THEN amount ELSE counts[k]]

\* FoldLine as it would be if the counts were kept per commit: the map is
\* emptied at the blank line that separates two commits
FoldLineResetOnBlank(os, counts, line) ==
    LET r == ParseLine(line)
        normalizedPath == NormalizePath(os, r.filePath)
    IN  IF line = EmptyStr THEN [k \in {} |-> 0]
        ELSE IF r.kind = "record" /\ normalizedPath # EmptyStr
        THEN AddCount(counts, normalizedPath,
                      ChangeAmount(r.addedStr, r.deletedStr))
        ELSE counts

\* main.go 163-232: the map after the loop body has run on one line
FoldLine(os, counts, line) ==
    LET r == ParseLine(line)
        normalizedPath == NormalizePath(os, r.filePath)
    IN  IF r.kind = "record" /\ normalizedPath # EmptyStr
        THEN AddCount(counts, normalizedPath,
                      ChangeAmount(r.addedStr, r.deletedStr))
        ELSE counts

----------------------------------------------------------------------------
\* Paths of the file system (path/filepath).

RECURSIVE SplitAny(_, _)
\* the elements of s between characters of seps
SplitAny(s, seps) ==
    LET cuts == {i \in 1..Len(s) : s[i] \in seps}
        n == IF cuts = {} THEN Len(s) + 1 ELSE MinOf(cuts)
    IN  IF cuts = {} THEN <<s>>
        ELSE <<SubSeq(s, 1, n - 1)>> \o SplitAny(SubSeq(s, n + 1, Len(s)), seps)

\* the characters filepath treats as separators
Separators(os) == IF os = "windows" THEN {"/", "\\"} ELSE {"/"}

RECURSIVE CleanElems(_, _)
\* filepath.Clean on the elements of a rooted path: "" and "." are dropped
\* and ".." removes the element before it
CleanElems(done, todo) ==
    IF todo = <<>> THEN done
    ELSE LET e == Head(todo)
         IN  IF e = <<>> \/ e = <<".">> THEN CleanElems(done, Tail(todo))
             ELSE IF e = <<".", ".">>
             THEN CleanElems(SubSeq(done, 1, Len(done) - 1), Tail(todo))
             ELSE CleanElems(Append(done, e), Tail(todo))

RECURSIVE Rooted(_, _)
Rooted(os, elems) ==
    IF elems = <<>> THEN <<>>
    ELSE <<Separator(os)>> \o Head(elems) \o Rooted(os, Tail(elems))

\* filepath.Join(currentPath, part) for a rooted currentPath
JoinPath(os, currentPath, part) ==
    LET elems == CleanElems(<<>>, SplitAny(currentPath, Separators(os))
                                   \o SplitAny(part, Separators(os)))
    IN  IF elems = <<>> THEN <<Separator(os)>> ELSE Rooted(os, elems)

\* filepath.Base
Base(os, path) ==
    LET elems == SelectSeq(SplitAny(path, Separators(os)), LAMBDA e : e # <<>>)
    IN  IF path = <<>> THEN <<".">>
        ELSE IF elems = <<>> THEN <<Separator(os)>>
        ELSE elems[Len(elems)]

\* os.Args[1] of the run
RepoPath == <<"/", "w", "/", "r">>

\* main.go 242-245
RootDirName(os, path) ==
    IF Base(os, path) = <<".">> \/ Base(os, path) = <<"/">>
    THEN <<"r", "e", "p", "o", "s", "i", "t", "o", "r", "y", "_", "r", "o", "o", "t">>
    ELSE Base(os, path)

----------------------------------------------------------------------------
\* The tree.  A Node is identified by the names on the way from the root to
\* it (the keys of the Children maps), the root by the empty sequence; a
\* node's Children are the nodes one name longer.

Root == <<>>

\* main.go 34-42
NewNode(name, path, isFile) ==
    [Name |-> name, Path |-> path, Value |-> 0, IsFile |-> isFile]

Children(t, n) ==
    {m \in DOMAIN t : Len(m) = Len(n) + 1 /\ SubSeq(m, 1, Len(n)) = n}

RECURSIVE EnsureFromKeepsKind(_, _, _, _, _, _)
\* EnsureFrom as it would be without line 63: a node that gets its first
\* child keeps the kind it was created with
EnsureFromKeepsKind(os, t, current, currentPath, pathParts, i) ==
    IF i > Len(pathParts) THEN [tree |-> t, node |-> current]
    ELSE LET part == pathParts[i]
             child == Append(current, part)
             nextPath == JoinPath(os, currentPath, part)
             isFile == (i = Len(pathParts))
             grown == [m \in DOMAIN t \cup {child} |->
                         IF m = child THEN NewNode(part, nextPath, isFile)
                         ELSE t[m]]
         IN  IF part = EmptyStr
             THEN EnsureFromKeepsKind(os, t, current, currentPath, pathParts, i + 1)
             ELSE IF child \in DOMAIN t
             THEN EnsureFromKeepsKind(os, t, child, nextPath, pathParts, i + 1)
             ELSE EnsureFromKeepsKind(os, grown, child, nextPath, pathParts, i + 1)

RECURSIVE EnsureFrom(_, _, _, _, _, _)
\* main.go 50-67: the loop of ensurePath from index i (1-based) on
EnsureFrom(os, t, current, currentPath, pathParts, i) ==
    IF i > Len(pathParts) THEN [tree |-> t, node |-> current]
    ELSE LET part == pathParts[i]
             child == Append(current, part)
             nextPath == JoinPath(os, currentPath, part)
             isFile == (i = Len(pathParts))
             grown == [m \in DOMAIN t \cup {child} |->
                         IF m = child THEN NewNode(part, nextPath, isFile)
                         ELSE IF m = current THEN [t[m] EXCEPT !.IsFile = FALSE]
                         ELSE t[m]]
         IN  IF part = EmptyStr
             THEN EnsureFrom(os, t, current, currentPath, pathParts, i + 1)
             ELSE IF child \in DOMAIN t
             THEN EnsureFrom(os, t, child, nextPath, pathParts, i + 1)
             ELSE EnsureFrom(os, grown, child, nextPath, pathParts, i + 1)

\* main.go 46-68
ensurePath(os, t, pathParts) == EnsureFrom(os, t, Root, <<"/">>, pathParts, 1)

\* main.go 252-256
PathParts(filePath) ==
    LET raw == Split(filePath, <<"/">>)
    IN  [i \in 1..Len(raw) |-> Trim(raw[i], {" ", "{", "}"})]

\* main.go 249-258: one iteration of the builder's loop
InsertEntry(os, t, filePath, count) ==
    LET r == ensurePath(os, t, PathParts(filePath))
    IN  IF count = 0 THEN t
        ELSE [r.tree EXCEPT ![r.node].Value = count]

RECURSIVE SumValues(_, _)
\* sum of the Value fields of the nodes S of t
SumValues(t, S) ==
    IF S = {} THEN 0
    ELSE LET n == CHOOSE x \in S : TRUE
         IN  t[n].Value + SumValues(t, S \ {n})

\* AggregateSum as it would be if a directory added up its children's Value
\* fields without recursing into them
AggregateSumShallow(t, n) ==
    IF t[n].IsFile THEN t[n].Value ELSE SumValues(t, Children(t, n))

RECURSIVE AggregateSum(_, _)
\* main.go 72-83: what n.aggregateCounts() returns
AggregateSum(t, n) ==
    IF t[n].IsFile THEN t[n].Value
    ELSE LET kids == Children(t, n)
             sums == [c \in kids |-> [Value |-> AggregateSum(t, c)]]
         IN  SumValues(sums, kids)

\* the nodes a call of aggregateCounts on the root recurses into: those
\* below no file node
Aggregated(t) ==
    {n \in DOMAIN t : \A k \in 0..(Len(n) - 1) : ~t[SubSeq(n, 1, k)].IsFile}

RECURSIVE SumBelow(_, _)
SumBelow(t, n) ==
    LET kids == Children(t, n)
        sums == [c \in kids |-> [Value |-> SumBelow(t, c)]]
    IN  SumValues(sums, kids)

\* aggregateCounts as it would be without the base case for files: every
\* node, file or not, is given the sum of its children
aggregateCountsNoBaseCase(t) ==
    [n \in DOMAIN t |-> [t[n] EXCEPT !.Value = SumBelow(t, n)]]

\* main.go 72-83: the tree after rootDir.aggregateCounts()
aggregateCounts(t) ==
    [n \in DOMAIN t |->
        IF n \in Aggregated(t) /\ ~t[n].IsFile
        THEN [t[n] EXCEPT !.Value = AggregateSum(t, n)]
        ELSE t[n]]

----------------------------------------------------------------------------
\* The export.

\* Included as it would be if zero-valued children were kept
IncludedAll(value) == value >= 0

\* main.go 96: the children ToJSONNode keeps
Included(value) == value > 0

\* main.go 103: the order sort.Slice is given
Less(a, b) == a > b

\* main.go 94-104: the sequences the range over the Children map followed by
\* sort.Slice can leave: the map is visited in any order and the sort keeps
\* no order among elements neither of which is Less than the other
SortedOrders(t, S) ==
    {o \in [1..Cardinality(S) -> S] :
        /\ \A i, j \in 1..Cardinality(S) : i # j => o[i] # o[j]
        /\ \A i, j \in 1..Cardinality(S) :
              i < j => ~Less(t[o[j]].Value, t[o[i]].Value)}

NilSlice == [isNil |-> TRUE, items |-> <<>>]

SliceOf(items) == [isNil |-> FALSE, items |-> items]

RECURSIVE ToJSONNode(_, _)
RECURSIVE ChildExports(_, _)
\* the sequences of exported children, for the children taken in one order
ChildExports(t, order) ==
    IF order = <<>> THEN {<<>>}
    ELSE {<<j>> \o rest : j \in ToJSONNode(t, Head(order)),
                          rest \in ChildExports(t, Tail(order))}

\* main.go 86-108: the JSONNodes n.ToJSONNode() can return
ToJSONNode(t, n) ==
    LET kids == Children(t, n)
        kept == {c \in kids : Included(t[c].Value)}
    IN  IF kids = {}
        THEN {[Name |-> t[n].Name, Value |-> t[n].Value, Children |-> NilSlice]}
        ELSE {[Name |-> t[n].Name, Value |-> t[n].Value, Children |-> SliceOf(cs)] :
                cs \in UNION {ChildExports(t, o) : o \in SortedOrders(t, kept)}}

\* OmitEmpty as it would be without the omitempty option of the tag
NeverOmit(slice) == FALSE

\* main.go 30: `json:"children,omitempty"` leaves the field out of the
\* object when the slice is nil or has length 0
OmitEmpty(slice) == slice.isNil \/ Len(slice.items) = 0

RECURSIVE Encode(_)
\* main.go 27-31, 328: the JSON object json.Encode writes for a JSONNode
Encode(j) ==
    IF OmitEmpty(j.Children)
    THEN [name |-> j.Name, value |-> j.Value]
    ELSE [name |-> j.Name, value |-> j.Value,
          children |-> [null |-> j.Children.isNil,
                        array |-> [i \in 1..Len(j.Children.items) |->
                                     Encode(j.Children.items[i])]]]

----------------------------------------------------------------------------
\* The program.

GOOS == {"linux", "windows"}

\* the goroutines net/http runs the /data handler in
Handlers == {"h1", "h2"}

NoResponse == [status |-> 0, jsonData |-> <<>>, body |-> <<>>]

EmptyMap == [k \in {} |-> 0]

\* what the failed command leaves in output (it is only logged)
FatalOutput == <<<<"f", "a", "t", "a", "l">>>>

\* the state before analyzeRepo is called on a repository whose log is h
Start(os, h) ==
    /\ goos = os
    /\ history = h
    /\ pc = "stat"
    /\ err = Nil
    /\ output = <<>>
    /\ pos = 0
    /\ processedLines = 0
    /\ fileChangeCounts = EmptyMap
    /\ visited = {}
    /\ rootDir = EmptyMap
    /\ repoData = Nil
    /\ analyzeError = Nil
    /\ resp = [h1 \in Handlers |-> NoResponse]

\* a repository whose log is made of TreeLines.  These hold no backslash, so
\* the build's separator changes nothing but the Path field, which the
\* program never reads: the build is fixed.
Init == \E h \in SeqsUpTo(TreeLines, MaxTreeLines) : Start("linux", h)

\* a repository whose log is made of Lines, under every build
InitParse == \E os \in GOOS, h \in SeqsUpTo(Lines, MaxParseLines) : Start(os, h)

\* main.go 120-123: the .git directory is there
StatGitDir ==
    /\ pc = "stat"
    /\ pc' = "gitlog"
    /\ UNCHANGED <<goos, history, err, output, pos, processedLines,
                   fileChangeCounts, visited, rootDir, repoData, analyzeError,
                   resp>>

\* main.go 120-123, 294: no .git directory; analyzeRepo returns nil and an error
StatGitDirMissing ==
    /\ pc = "stat"
    /\ pc' = "serve"
    /\ analyzeError' = "notARepository"
    /\ repoData' = Nil
    /\ UNCHANGED <<goos, history, err, output, pos, processedLines,
                   fileChangeCounts, visited, rootDir, resp>>

\* main.go 127-129: git log succeeds
GitLog ==
    /\ pc = "gitlog"
    /\ output' = history
    /\ err' = Nil
    /\ pc' = "scan"
    /\ UNCHANGED <<goos, history, pos, processedLines, fileChangeCounts,
                   visited, rootDir, repoData, analyzeError, resp>>

\* main.go 127-133: git log fails
GitLogFails ==
    /\ pc = "gitlog"
    /\ output' = FatalOutput
    /\ err' = "exit status"
    /\ pc' = "fetch"
    /\ UNCHANGED <<goos, history, pos, processedLines, fileChangeCounts,
                   visited, rootDir, repoData, analyzeError, resp>>

\* main.go 134-136: git fetch --unshallow succeeds
FetchUnshallow ==
    /\ pc = "fetch"
    /\ pc' = "retry"
    /\ UNCHANGED <<goos, history, err, output, pos, processedLines,
                   fileChangeCounts, visited, rootDir, repoData, analyzeError,
                   resp>>

\* main.go 134-139: git fetch --unshallow fails
FetchUnshallowFails ==
    /\ pc = "fetch"
    /\ pc' = "fetchSimple"
    /\ UNCHANGED <<goos, history, err, output, pos, processedLines,
                   fileChangeCounts, visited, rootDir, repoData, analyzeError,
                   resp>>

\* main.go 139-144: git fetch, whose failure is only printed
FetchSimple ==
    /\ pc = "fetchSimple"
    /\ pc' = "retry"
    /\ UNCHANGED <<goos, history, err, output, pos, processedLines,
                   fileChangeCounts, visited, rootDir, repoData, analyzeError,
                   resp>>

\* AfterRetry as it would be if the error of the second git log were dropped
AfterRetryMasked(e) == "scan"

\* main.go 148-153: where analyzeRepo goes after the second git log
AfterRetry(e) == IF e # Nil THEN "return" ELSE "scan"

\* main.go 146-153: the second git log succeeds
GitLogRetry ==
    /\ pc = "retry"
    /\ output' = history
    /\ err' = Nil
    /\ pc' = AfterRetry(err')
    /\ UNCHANGED <<goos, history, pos, processedLines, fileChangeCounts,
                   visited, rootDir, repoData, analyzeError, resp>>

\* main.go 146-152: the second git log fails
GitLogRetryFails ==
    /\ pc = "retry"
    /\ output' = FatalOutput
    /\ err' = "exit status"
    /\ pc' = AfterRetry(err')
    /\ UNCHANGED <<goos, history, pos, processedLines, fileChangeCounts,
                   visited, rootDir, repoData, analyzeError, resp>>

\* main.go 151, 294: analyzeRepo returns nil and the error to main
ReturnError ==
    /\ pc = "return"
    /\ analyzeError' = "gitLogFailed"
    /\ repoData' = Nil
    /\ pc' = "serve"
    /\ UNCHANGED <<goos, history, err, output, pos, processedLines,
                   fileChangeCounts, visited, rootDir, resp>>

\* main.go 161-233: one turn of the scanner loop
Scan ==
    /\ pc = "scan"
    /\ pos < Len(output)
    /\ LET line == output[pos + 1]
       IN  /\ pos' = pos + 1
           /\ processedLines' =
                 IF line = EmptyStr THEN processedLines ELSE processedLines + 1
           /\ fileChangeCounts' = FoldLine(goos, fileChangeCounts, line)
    /\ UNCHANGED <<goos, history, pc, err, output, visited, rootDir, repoData,
                   analyzeError, resp>>

\* main.go 235-246: the scanner is exhausted; the root node is made
ScanDone ==
    /\ pc = "scan"
    /\ pos = Len(output)
    /\ rootDir' = [n \in {Root} |->
                     NewNode(RootDirName(goos, RepoPath), <<"/">>, FALSE)]
    /\ visited' = {}
    /\ pc' = "build"
    /\ UNCHANGED <<goos, history, err, output, pos, processedLines,
                   fileChangeCounts, repoData, analyzeError, resp>>

\* main.go 248-259: one turn of the range over fileChangeCounts, which
\* visits the keys in an order Go does not specify
BuildEntry ==
    /\ pc = "build"
    /\ \E filePath \in DOMAIN fileChangeCounts \ visited :
          /\ rootDir' = InsertEntry(goos, rootDir, filePath,
                                    fileChangeCounts[filePath])
          /\ visited' = visited \cup {filePath}
    /\ UNCHANGED <<goos, history, pc, err, output, pos, processedLines,
                   fileChangeCounts, repoData, analyzeError, resp>>

\* main.go 261-272, 294: aggregation, and the return of the tree to main
Aggregate ==
    /\ pc = "build"
    /\ visited = DOMAIN fileChangeCounts
    /\ rootDir' = aggregateCounts(rootDir)
    /\ repoData' = "rootDir"
    /\ analyzeError' = Nil
    /\ pc' = "serve"
    /\ UNCHANGED <<goos, history, err, output, pos, processedLines,
                   fileChangeCounts, visited, resp>>

\* main.go 305-333: the responses the /data handler can write
DataResponses(analyzeErr, data, t) ==
    IF analyzeErr # Nil
    THEN {[status |-> 500, jsonData |-> <<>>, body |-> <<"analysis error">>]}
    ELSE IF data = Nil
    THEN {[status |-> 500, jsonData |-> <<>>, body |-> <<"not available">>]}
    ELSE {[status |-> 200, jsonData |-> j, body |-> Encode(j)] :
            j \in ToJSONNode(t, Root)}

\* main.go 305-333: a request to /data is served by handler h
DataHandler(h) ==
    /\ pc = "serve"
    /\ \E r \in DataResponses(analyzeError, repoData, rootDir) :
          resp' = [resp EXCEPT ![h] = r]
    /\ UNCHANGED <<goos, history, pc, err, output, pos, processedLines,
                   fileChangeCounts, visited, rootDir, repoData, analyzeError>>

Next ==
    \/ StatGitDir
    \/ StatGitDirMissing
    \/ GitLog
    \/ GitLogFails
    \/ FetchUnshallow
    \/ FetchUnshallowFails
    \/ FetchSimple
    \/ GitLogRetry
    \/ GitLogRetryFails
    \/ ReturnError
    \/ Scan
    \/ ScanDone
    \/ BuildEntry
    \/ Aggregate
    \/ \E h \in Handlers : DataHandler(h)

\* the program on every log of up to MaxTreeLines lines of TreeLines
Spec == Init /\ [][Next]_vars

\* analyzeRepo up to the end of the scanner loop (main.go 119-233)
NextParse ==
    \/ StatGitDir
    \/ StatGitDirMissing
    \/ GitLog
    \/ GitLogFails
    \/ FetchUnshallow
    \/ FetchUnshallowFails
    \/ FetchSimple
    \/ GitLogRetry
    \/ GitLogRetryFails
    \/ ReturnError
    \/ Scan

\* the acquisition and the parser on every log of up to MaxParseLines lines
\* of Lines
SpecParse == InitParse /\ [][NextParse]_vars

----------------------------------------------------------------------------
\* Properties of the line parser.

ToSet(s) == {s[i] : i \in 1..Len(s)}

\* the lines the scanner has yielded so far
Scanned == SubSeq(output, 1, pos)

\* the key a line is counted under, EmptyStr when it is counted under none
KeyOf(os, line) ==
    IF ParseLine(line).kind = "record"
    THEN NormalizePath(os, ParseLine(line).filePath)
    ELSE EmptyStr

RECURSIVE FoldAll(_, _, _)
FoldAll(os, counts, lines) ==
    IF lines = <<>> THEN counts
    ELSE FoldAll(os, FoldLine(os, counts, Head(lines)), Tail(lines))

SrcNewGo == <<"s", "r", "c", "/", "n", "e", "w", ".", "g", "o">>

NewPathGo == <<"n", "e", "w", "/", "p", "a", "t", "h", ".", "g", "o">>

ABGo == <<"a", "/", "b", ".", "g", "o">>

\* the rename records of the specification, with the key each is to be
\* counted under
RenameExamples ==
    {[line |-> RenameLine, dest |-> SrcNewGo],
     [line |-> WholeRenameLine, dest |-> NewPathGo]}

\* C1: a rename record is counted under its destination path: once
\* "0\t0\tsrc/{old.go => new.go}" is scanned "src/new.go" is a key of the
\* WeightMap, once "1\t0\t{old/path.go => new/path.go}" is scanned
\* "new/path.go" is, and when only rename records were scanned the
\* destinations are the only keys (no key comes from the old side).
C1_RenameCountsDestination ==
    /\ \A i \in 1..pos : \A e \in RenameExamples :
          output[i] = e.line => e.dest \in DOMAIN fileChangeCounts
    /\ (\A i \in 1..pos : \E e \in RenameExamples : output[i] = e.line)
          => DOMAIN fileChangeCounts \subseteq {e.dest : e \in RenameExamples}

IsCount(field) ==
    \/ field = <<"-">>
    \/ field # <<>> /\ ToSet(field) \subseteq ToSet(Digits)

\* a line that is neither an `<added> <deleted> <path>` record nor a rename
\* record
Malformed(line) ==
    /\ line # EmptyStr
    /\ ~Contains(line, Arrow)
    /\ ~(/\ Len(Fields(line)) >= 3
         /\ IsCount(Fields(line)[1])
         /\ IsCount(Fields(line)[2]))

\* C2: a malformed line contributes nothing and does not stop the pass: the
\* WeightMap after any number of lines is the WeightMap of the same lines
\* with the malformed ones taken out, and every non-empty line was counted
\* as processed.
C2_MalformedContributesNothing ==
    /\ fileChangeCounts =
          FoldAll(goos, EmptyMap, SelectSeq(Scanned, LAMBDA l : ~Malformed(l)))
    /\ processedLines = Len(SelectSeq(Scanned, LAMBDA l : l # EmptyStr))

\* C3: weight is an occurrence count: the keys of the WeightMap are the
\* normalized paths of the accepted lines scanned so far, and the weight of a
\* key is the number of those lines, whatever their added and deleted fields.
C3_WeightIsOccurrenceCount ==
    /\ DOMAIN fileChangeCounts =
          {KeyOf(goos, Scanned[i]) : i \in 1..pos} \ {EmptyStr}
    /\ \A p \in DOMAIN fileChangeCounts :
          fileChangeCounts[p] =
             Cardinality({i \in 1..pos : KeyOf(goos, Scanned[i]) = p})

\* a.go touched twice, once as a binary file and once with 2 added lines
C3_Witness ==
    /\ pos = 2
    /\ Scanned = <<SecondTouchLine, BinaryLine>>
    /\ fileChangeCounts[ABGo] = 2

----------------------------------------------------------------------------
\* Properties of the tree, the aggregation and the export.

\* analyzeRepo has returned a tree
Analyzed == pc = "serve" /\ repoData # Nil

RECURSIVE TotalWeight(_, _)
TotalWeight(counts, keys) ==
    IF keys = {} THEN 0
    ELSE LET k == CHOOSE x \in keys : TRUE
         IN  counts[k] + TotalWeight(counts, keys \ {k})

\* C4: conservation: after aggregateCounts every directory's value is the sum
\* of its children's values (0 without children), and the root's value is the
\* sum of the values of the file nodes, which is also the sum over the nodes
\* without children.
C4_Conservation ==
    Analyzed =>
       /\ \A n \in DOMAIN rootDir :
             ~rootDir[n].IsFile =>
                rootDir[n].Value = SumValues(rootDir, Children(rootDir, n))
       /\ rootDir[Root].Value =
             SumValues(rootDir, {n \in DOMAIN rootDir : rootDir[n].IsFile})
       /\ rootDir[Root].Value =
             SumValues(rootDir, {n \in DOMAIN rootDir \ {Root} :
                                    Children(rootDir, n) = {}})

\* a tree three levels deep whose root adds up three files
C4_Witness ==
    /\ Analyzed
    /\ <<<<"a">>, <<"b">>, <<"c">>>> \in DOMAIN rootDir
    /\ rootDir[Root].Value = 3

\* C5: after build and aggregation the root's value is the total of the
\* weights of the WeightMap.
C5_RootIsTotalWeight ==
    Analyzed =>
       rootDir[Root].Value = TotalWeight(fileChangeCounts, DOMAIN fileChangeCounts)

RECURSIVE ExportMatches(_, _, _)
\* j is an export of node n of t: the same name and value, its children the
\* exports of exactly the children of n with a value > 0, in non-increasing
\* order of value
ExportMatches(t, j, n) ==
    LET kept == {c \in Children(t, n) : t[c].Value > 0}
        items == j.Children.items
    IN  /\ j.Name = t[n].Name
        /\ j.Value = t[n].Value
        /\ Len(items) = Cardinality(kept)
        /\ \A c \in kept : \E i \in 1..Len(items) :
              items[i].Name = t[c].Name /\ ExportMatches(t, items[i], c)
        /\ \A i, k \in 1..Len(items) : i < k => items[i].Value >= items[k].Value

\* C6: every export a handler returned holds, at every node, exactly the
\* children whose aggregated value is > 0, in non-increasing order of value.
C6_ExportKeepsPositiveSorted ==
    \A h \in Handlers :
       resp[h].status = 200 => ExportMatches(rootDir, resp[h].jsonData, Root)

\* an export of a root that has a zero-valued child and a positive one
C6_Witness ==
    /\ Analyzed
    /\ \E c \in Children(rootDir, Root) : rootDir[c].Value = 0
    /\ \E h \in Handlers :
          /\ resp[h].status = 200
          /\ Len(resp[h].jsonData.Children.items) = 1

\* C7: the export order is deterministic: two exports of the same tree hold
\* the same sequence of children at every node.
C7_ExportOrderDeterministic ==
    \A g, h \in Handlers :
       resp[g].status = 200 /\ resp[h].status = 200
          => resp[g].jsonData = resp[h].jsonData

RECURSIVE BodyOmitsChildren(_, _, _)
\* in the JSON object b written for node n, "children" is present exactly
\* when n has a child with a value > 0, and is then a non-empty array
BodyOmitsChildren(t, b, n) ==
    LET kept == {c \in Children(t, n) : t[c].Value > 0}
    IN  /\ ("children" \in DOMAIN b) <=> (kept # {})
        /\ "children" \in DOMAIN b =>
              /\ ~b.children.null
              /\ Len(b.children.array) > 0
              /\ \A i \in 1..Len(b.children.array) :
                    \E c \in kept :
                       /\ t[c].Name = b.children.array[i].name
                       /\ BodyOmitsChildren(t, b.children.array[i], c)

C8_State ==
    /\ Analyzed /\ fileChangeCounts = EmptyMap =>
          /\ analyzeError = Nil
          /\ DOMAIN rootDir = {Root}
          /\ rootDir[Root].Value = 0
    /\ \A h \in Handlers :
          resp[h].status = 200 => BodyOmitsChildren(rootDir, resp[h].body, Root)

C8_Step ==
    pc = "build" /\ pc' = "serve" /\ fileChangeCounts = EmptyMap
       => /\ analyzeError' = Nil
          /\ repoData' # Nil
          /\ DOMAIN rootDir' = {Root}
          /\ rootDir'[Root].Value = 0
          /\ Children(rootDir', Root) = {}

\* C8: an input without an accepted line is no error: analyzeRepo then
\* returns no error and a root with value 0 and no children; and in every
\* served JSON object the children field is absent, never an empty array, at
\* each node without a child of value > 0.
C8_EmptyInputAndOmittedChildren == []C8_State /\ [][C8_Step]_vars

\* a log of blank lines only, served as an object without children
C8_Witness ==
    /\ Analyzed
    /\ history = <<BlankLine, BlankLine>>
    /\ resp["h1"].status = 200
    /\ DOMAIN resp["h1"].body = {"name", "value"}

RECURSIVE Unordered(_)
\* a JSONNode without the order of its children
Unordered(j) ==
    [Name |-> j.Name, Value |-> j.Value,
     Children |-> {Unordered(j.Children.items[i]) :
                      i \in 1..Len(j.Children.items)}]

\* a step leaves the structure of the tree alone: the same nodes with the
\* same Name, Path and IsFile, and the same Value at every file
SameStructure(t, u) ==
    /\ DOMAIN t = DOMAIN u
    /\ \A n \in DOMAIN t :
          /\ t[n].Name = u[n].Name
          /\ t[n].Path = u[n].Path
          /\ t[n].IsFile = u[n].IsFile
          /\ t[n].IsFile => t[n].Value = u[n].Value

C9_Step ==
    /\ pc = "serve" => rootDir' = rootDir /\ repoData' = repoData
    /\ pc = "build" /\ pc' = "serve" => SameStructure(rootDir, rootDir')
    /\ \A g, h \in Handlers :
          resp'[g].status = 200 /\ resp'[h].status = 200
             => Unordered(resp'[g].jsonData) = Unordered(resp'[h].jsonData)

\* C9: once the analysis is complete no step changes the tree: the handlers
\* of /data, in any interleaving, leave every node as it is and export the
\* same names, values and parent/child structure; and aggregateCounts changes
\* nothing but the Value of directory nodes.
C9_TreeImmutableAfterAnalysis == [][C9_Step]_vars

\* both handlers have served a tree that holds a file below a directory
C9_Witness ==
    /\ Analyzed
    /\ resp["h1"].status = 200
    /\ resp["h2"].status = 200
    /\ \E n \in DOMAIN rootDir : Len(n) = 2 /\ rootDir[n].IsFile /\ rootDir[n].Value = 2

----------------------------------------------------------------------------
\* Properties of the acquisition.

\* git log has failed twice: err is set and no further run will replace it
RetryFailed == err # Nil /\ pc \notin {"fetch", "fetchSimple", "retry"}

C10_State ==
    RetryFailed =>
       /\ pc \in {"return", "serve"}
       /\ pos = 0
       /\ processedLines = 0
       /\ fileChangeCounts = EmptyMap
       /\ rootDir = EmptyMap
       /\ repoData = Nil
       /\ pc = "serve" => analyzeError # Nil
       /\ \A h \in Handlers : resp[h].status \in {0, 500}

C10_Step ==
    /\ RetryFailed => RetryFailed'
    /\ pc = "serve" =>
          pc' = "serve" /\ analyzeError' = analyzeError /\ repoData' = repoData

\* C10: a failure of git log on the first run and on the retry is terminal:
\* analyzeRepo returns an error and no tree without scanning a line, the
\* analysis is not run again, and every /data request is answered with
\* status 500.
C10_AcquisitionFailureIsTerminal == []C10_State /\ [][C10_Step]_vars

\* both handlers have answered 500 after the retry failed
C10_Witness ==
    /\ RetryFailed
    /\ pc = "serve"
    /\ analyzeError = "gitLogFailed"
    /\ history # <<>>
    /\ \A h \in Handlers : resp[h].status = 500

----------------------------------------------------------------------------
\* The parser as a function of the text.

\* the rearrangements of the sequence s
Rearrangements(s) ==
    {[i \in 1..Len(s) |-> s[q[i]]] :
        q \in {f \in [1..Len(s) -> 1..Len(s)] :
                  \A i, k \in 1..Len(s) : i # k => f[i] # f[k]}}

\* s with one more blank line, at any place
WithBlankLine(s) ==
    {SubSeq(s, 1, k) \o <<BlankLine>> \o SubSeq(s, k + 1, Len(s)) : k \in 0..Len(s)}

\* C11: the parser is an order-insensitive function of its input: the
\* WeightMap the scanner loop has built from the lines read so far is the one
\* it builds from the same lines in any other order, blank separator lines
\* moved along with the rest, and with one more blank line at any place.
C11_ParserOrderInsensitive ==
    \A q \in Rearrangements(Scanned) :
       /\ FoldAll(goos, EmptyMap, q) = fileChangeCounts
       /\ \A b \in WithBlankLine(q) : FoldAll(goos, EmptyMap, b) = fileChangeCounts

\* a commit's record followed by the blank line that ends the commit
C11_Witness ==
    /\ pos = 2
    /\ Scanned = <<NormalLine, BlankLine>>
    /\ DOMAIN fileChangeCounts = {<<"s", "r", "c", "/", "a", "p", "p", ".", "g", "o">>}

----------------------------------------------------------------------------
\* Properties of the builder.

\* the node ensurePath returns for a key: the names of its non-empty segments
NodeOf(filePath) == SelectSeq(PathParts(filePath), LAMBDA part : part # EmptyStr)

\* node m lies below node n
Below(m, n) == Len(m) > Len(n) /\ SubSeq(m, 1, Len(n)) = n

\* C12: node kinds: after every ensurePath call, in every order of
\* insertion, no node is a file and has children; and once a key and a
\* longer key that runs through its node have both been inserted, that node
\* is a directory, whichever of the two was inserted first.
C12_NoFileHasChildren ==
    /\ \A n \in DOMAIN rootDir :
          rootDir[n].IsFile => Children(rootDir, n) = {}
    /\ \A k, l \in visited :
          Below(NodeOf(l), NodeOf(k)) => ~rootDir[NodeOf(k)].IsFile

\* "a" and "a/b" have both been inserted: a is a directory that holds the
\* file b
C12_Witness ==
    /\ pc = "build"
    /\ visited = {<<"a">>, <<"a", "/", "b">>}
    /\ ~rootDir[<<<<"a">>>>].IsFile
    /\ rootDir[<<<<"a">>>>].Value = 1
    /\ rootDir[<<<<"a">>, <<"b">>>>].IsFile

\* C13: while the tree is built the value of each file node is assigned once,
\* from one entry of the WeightMap, and no value is assigned to a directory
\* node: the entries visited so far end at distinct nodes, and each of these
\* nodes is a file.
C13_FileValuesAssignedOnce ==
    /\ \A k \in visited : rootDir[NodeOf(k)].IsFile
    /\ \A k, l \in visited : k # l => NodeOf(k) # NodeOf(l)

----------------------------------------------------------------------------
\* The keys of the WeightMap.

Braces == {"{", "}"}

Blanks == {" ", "\t"}

\* C14: after any sequence of parsed lines every key of the WeightMap is
\* non-empty, has no separator but the forward slash, neither starts nor
\* ends with a brace or with whitespace, and has a weight >= 1.
C14_KeysNormalized ==
    \A k \in DOMAIN fileChangeCounts :
       /\ k # EmptyStr
       /\ \A i \in 1..Len(k) : k[i] = Separator(goos) => k[i] = "/"
       /\ k[1] \notin Braces \cup Blanks
       /\ k[Len(k)] \notin Braces \cup Blanks
       /\ fileChangeCounts[k] >= 1

----------------------------------------------------------------------------
\* The tree as a function of the WeightMap.

\* the orders in which a range loop can visit the keys S
VisitOrders(S) ==
    {o \in [1..Cardinality(S) -> S] :
        \A i, k \in 1..Cardinality(S) : i # k => o[i] # o[k]}

RECURSIVE BuildInOrder(_, _, _, _)
\* the tree the builder's loop leaves when it visits the keys in order o
BuildInOrder(os, t, counts, o) ==
    IF o = <<>> THEN t
    ELSE BuildInOrder(os, InsertEntry(os, t, Head(o), counts[Head(o)]), counts,
                      Tail(o))

\* the tree analyzeRepo returns when its loop visits the keys in order o
TreeInOrder(os, counts, o) ==
    aggregateCounts(
       BuildInOrder(os,
                    [n \in {Root} |->
                       NewNode(RootDirName(os, RepoPath), <<"/">>, FALSE)],
                    counts, o))

\* C15: the built and aggregated tree does not depend on the order in which
\* the builder's loop visits the entries of the WeightMap: the tree
\* analyzeRepo returned is the tree every visiting order produces, with the
\* same nodes, the same IsFile and the same Value at each.
C15_TreeIndependentOfVisitOrder ==
    Analyzed =>
       \A o \in VisitOrders(DOMAIN fileChangeCounts) :
          TreeInOrder(goos, fileChangeCounts, o) = rootDir

====
